---- MODULE Spec2Model ----
(***************************************************************************)
(* A model of isio.c, the iRODS standard i/o emulation library: one        *)
(* ISIO_FILE (a single cache buffer in front of one iRODS data object),    *)
(* the handlers isioFileRead, isioFileWrite, isioFileSeek, isioFileTell,   *)
(* isioFlush, isioFilePutc, isioFileGetc and isioFileClose, and the remote *)
(* data object they talk to through rcDataObjRead, rcDataObjWrite and      *)
(* rcDataObjLseek.                                                         *)
(*                                                                         *)
(* Pointers into the cache buffer are modelled by their distance from      *)
(* ifp->base: the field ptr holds (ifp->ptr - ifp->base).  The field base  *)
(* holds the bytes of the allocated block, so Len(base) is the size that   *)
(* malloc/realloc really returned, which the code tracks (or fails to      *)
(* track) in bufferSize.                                                   *)
(*                                                                         *)
(* The two buffer sizes are scaled down, as isio.c:46-47 says the test     *)
(* script does; every comparison against them is the source's.             *)
(*                                                                         *)
(* The handle table _cacheInfo, with irodsfopen, irodsfclose and irodsfflush *)
(* on the FILE * values it hands out, is a second part of the state.        *)
(*                                                                         *)
(* isio.c:35 defines NDEBUG before including assert.h: the asserts of the   *)
(* handlers are compiled out and stop nothing.                             *)
(***************************************************************************)
EXTENDS Integers, Sequences, FiniteSets, TLC

\* ------------------------------------------------------------------------
\* Program constants
\* ------------------------------------------------------------------------
ISIO_INITIAL_BUF_SIZE == 10
ISIO_MAX_BUF_SIZE == 24
\* the number of slots of _cacheInfo, scaled down as well
ISIO_MAX_OPEN_FILES == 3

SEEK_SET == 0
SEEK_CUR == 1
SEEK_END == 2

\* the negative status a failing rcDataObj* call returns: an iRODS error code,
\* which is never the EOF of stdio (-1)
RemoteErr == -1000

\* size_t is modelled SizeBits wide (scaled down from 64): the conversion of
\* an int to size_t is arithmetic modulo 2^SizeBits
SizeBits == 16
ToSizeT(x) == x % (2 ^ SizeBits)

\* ------------------------------------------------------------------------
\* Bounds of the model
\* ------------------------------------------------------------------------
\* number of calls made on the handle
MaxOps == 3
\* length of the data object when the handle is opened
ObjLen == 12
\* number of calls made on the handle when a remote call may be made to fail
MaxOpsFail == 3
\* the last remote call of a handler that may be made to fail
MaxFailAt == 3
\* number of irodsfopen calls that reach isioFileOpen's allocation
MaxOpens == 5
\* number of calls made through the handle table
MaxTableCalls == 6

\* ------------------------------------------------------------------------
\* Bytes
\* ------------------------------------------------------------------------
\* Byte k (0-based) of the object as it is at open time.
ObjByte(k) == k + 1
\* Byte i (1-based) of the data the caller passes to the c-th write call.
SrcByte(c, i) == 100 * c + i
\* A byte of a freshly allocated block that nothing has stored into yet.
Uninit == -1
\* A byte of a hole left by writing beyond the end of the object.
Hole == 0

Min(a, b) == IF a <= b THEN a ELSE b
Max(a, b) == IF a >= b THEN a ELSE b

InitialObject(len) == [k \in 1..len |-> ObjByte(k - 1)]
SrcData(c, n) == [i \in 1..n |-> SrcByte(c, i)]

\* dst with src stored at 0-based offset pos (memcpy into a block that is big enough)
Store(dst, pos, src) ==
    [i \in 1..Len(dst) |->
        IF i > pos /\ i <= pos + Len(src) THEN src[i - pos] ELSE dst[i]]

\* the object after len(data) bytes are written at pos: it grows as needed
Place(o, pos, data) ==
    [i \in 1..Max(Len(o), pos + Len(data)) |->
        IF i > pos /\ i <= pos + Len(data) THEN data[i - pos]
        ELSE IF i <= Len(o) THEN o[i]
        ELSE Hole]

\* the NULL that a failing realloc returns, as a block
NoBlock == <<>>
\* isio.c:408: what isioFileRead returns when realloc fails
MemoryAllocationError == -99
\* malloc(size)
Malloc(size) == [i \in 1..size |-> Uninit]
\* realloc(block, size): the common prefix is kept
Realloc(block, size) ==
    [i \in 1..size |-> IF i <= Len(block) THEN block[i] ELSE Uninit]

\* ------------------------------------------------------------------------
\* The machine a handler runs on: the ISIO_FILE, the remote data object with
\* the position of its descriptor, the remote calls the handler has made so
\* far, which of them is to fail (failAt, 0 for none), whether realloc is to
\* return NULL (allocFails), and whether the handler has run into undefined
\* behaviour.
\* ------------------------------------------------------------------------
new_isio_file ==
    [base_offset |-> 0,
     base        |-> Malloc(ISIO_INITIAL_BUF_SIZE),
     bufferSize  |-> ISIO_INITIAL_BUF_SIZE,
     ptr         |-> 0,
     count       |-> 0,
     dirty       |-> FALSE,
     userBase    |-> FALSE]

Fails(m) == Len(m.calls) + 1 = m.failAt

\* rcDataObjWrite: store data at the descriptor's position, advance it.
rcDataObjWrite(m, data) ==
    IF Fails(m)
    THEN [m |-> [m EXCEPT !.calls = Append(@, "write"), !.failed = TRUE,
                          !.failedAt = IF m.failed THEN @ ELSE Len(m.calls) + 1],
          status |-> RemoteErr]
    ELSE [m |-> [m EXCEPT !.obj = Place(@, m.rpos, data),
                          !.rpos = @ + Len(data),
                          !.calls = Append(@, "write")],
          status |-> Len(data)]

\* rcDataObjRead: up to len bytes from the descriptor's position.
rcDataObjRead(m, len) ==
    IF Fails(m)
    THEN [m |-> [m EXCEPT !.calls = Append(@, "read"), !.failed = TRUE,
                          !.failedAt = IF m.failed THEN @ ELSE Len(m.calls) + 1],
          status |-> RemoteErr, data |-> <<>>]
    ELSE LET got == Max(0, Min(len, Len(m.obj) - m.rpos))
         IN [m |-> [m EXCEPT !.rpos = @ + got, !.calls = Append(@, "read")],
             status |-> got,
             data |-> SubSeq(m.obj, m.rpos + 1, m.rpos + got)]

\* rcDataObjLseek: status 0 and the new position in the output structure;
\* a negative status and no output structure for a target before the
\* start of the object.  kind tells the two callers apart in the call log.
rcDataObjLseek(m, offset, whence, kind) ==
    LET target == IF whence = SEEK_SET THEN offset
                  ELSE IF whence = SEEK_CUR THEN m.rpos + offset
                  ELSE Len(m.obj) + offset
    IN IF Fails(m) \/ target < 0
       THEN [m |-> [m EXCEPT !.calls = Append(@, kind), !.failed = TRUE,
                          !.failedAt = IF m.failed THEN @ ELSE Len(m.calls) + 1],
             status |-> RemoteErr, hasResult |-> FALSE, offset |-> 0]
       ELSE [m |-> [m EXCEPT !.rpos = target, !.calls = Append(@, kind)],
             status |-> 0, hasResult |-> TRUE, offset |-> target]

\* ------------------------------------------------------------------------
\* isioFlush
\* ------------------------------------------------------------------------
\* isioFlush clearing dirty whatever the remote write returned (a mutant, for
\* C32)
isioFlush_ClearsOnFailure(m) ==
    IF m.ifp.dirty
    THEN LET w == rcDataObjWrite(m, SubSeq(m.ifp.base, 1, m.ifp.ptr + m.ifp.count))
         IN [m |-> [w.m EXCEPT !.ifp.dirty = FALSE], status |-> w.status]
    ELSE [m |-> m, status |-> 0]

isioFlush(m) ==
    IF m.ifp.dirty
    THEN LET w == rcDataObjWrite(m, SubSeq(m.ifp.base, 1, m.ifp.ptr + m.ifp.count))
         IN [m |-> IF w.status >= 0 THEN [w.m EXCEPT !.ifp.dirty = FALSE] ELSE w.m,
             status |-> w.status]
    ELSE [m |-> m, status |-> 0]

\* ------------------------------------------------------------------------
\* isioFileTell: rcDataObjLseek(0, SEEK_CUR), then seekResult->offset.  A
\* failing call leaves seekResult NULL and the return dereferences it.
\* ------------------------------------------------------------------------
isioFileTell(m) ==
    LET s == rcDataObjLseek(m, 0, SEEK_CUR, "tell")
    IN IF s.hasResult
       THEN [m |-> s.m, ret |-> s.offset]
       ELSE [m |-> [s.m EXCEPT !.ub = TRUE], ret |-> 0]

\* ------------------------------------------------------------------------
\* isioFillBuffer
\* ------------------------------------------------------------------------
\* isioFillBuffer asking for the position again after the read (a mutant, for C9)
isioFillBuffer_Requery(m) ==
    IF m.ifp.bufferSize <= 0
    THEN [m |-> m, status |-> -2]
    ELSE LET t  == isioFileTell(m)
             m1 == [t.m EXCEPT !.ifp.base_offset = t.ret]
             r  == rcDataObjRead(m1, m1.ifp.bufferSize)
             t2 == isioFileTell(r.m)
         IN IF r.status < 0
            THEN [m |-> r.m, status |-> r.status]
            ELSE [m |-> [t2.m EXCEPT !.ifp.base = Store(@, 0, r.data),
                                     !.ifp.ptr = 0,
                                     !.ifp.count = r.status],
                  status |-> 0]

isioFillBuffer(m) ==
    IF m.ifp.bufferSize <= 0
    THEN [m |-> m, status |-> -2]
    ELSE LET t  == isioFileTell(m)
             m1 == [t.m EXCEPT !.ifp.base_offset = t.ret]
             r  == rcDataObjRead(m1, m1.ifp.bufferSize)
         IN IF r.status < 0
            THEN [m |-> r.m, status |-> r.status]
            ELSE [m |-> [r.m EXCEPT !.ifp.base = Store(@, 0, r.data),
                                    !.ifp.ptr = 0,
                                    !.ifp.count = r.status],
                  status |-> 0]

\* ------------------------------------------------------------------------
\* isioFileRead(ifp, buffer, maxToRead).  The result carries the bytes the
\* call stored in the caller's buffer.
\* ------------------------------------------------------------------------
\* isio.c:397-467: the cache could not satisfy the request; reqSize bytes are
\* still wanted, head is what the caller's buffer already holds.
ReadRefill(m, reqSize, head) ==
    LET newBufSize == (2 * reqSize) + 8
        usingUsersBuffer == newBufSize > m.ifp.bufferSize /\ newBufSize > ISIO_MAX_BUF_SIZE
        saved_base == m.ifp.base
        saved_bufferSize == m.ifp.bufferSize
        m1 == IF newBufSize > m.ifp.bufferSize
              THEN IF newBufSize <= ISIO_MAX_BUF_SIZE
                   THEN [m EXCEPT !.ifp.base = Realloc(@, newBufSize),
                                  !.ifp.bufferSize = newBufSize,
                                  !.ifp.ptr = 0,
                                  !.ifp.count = 0]
                   ELSE [m EXCEPT !.ifp.base = Malloc(reqSize),
                                  !.ifp.userBase = TRUE,
                                  !.ifp.ptr = 0,
                                  !.ifp.bufferSize = reqSize]
              ELSE [m EXCEPT !.ifp.ptr = 0, !.ifp.count = 0]
        f == isioFillBuffer(m1)
    IN IF newBufSize > m.ifp.bufferSize /\ newBufSize <= ISIO_MAX_BUF_SIZE
          /\ m.allocFails
       THEN [m |-> [m EXCEPT !.ifp.base = NoBlock],
             ret |-> MemoryAllocationError, data |-> head]
       ELSE IF f.status < 0
       THEN [m |-> f.m, ret |-> f.status, data |-> head]
       ELSE LET second_read_count == Min(f.m.ifp.count, reqSize)
                read_count == Len(head) + second_read_count
                got == SubSeq(f.m.ifp.base, f.m.ifp.ptr + 1, f.m.ifp.ptr + second_read_count)
            IN IF usingUsersBuffer
               THEN [m |-> [f.m EXCEPT !.ifp.base = saved_base,
                                       !.ifp.userBase = FALSE,
                                       !.ifp.bufferSize = saved_bufferSize,
                                       !.ifp.ptr = 0,
                                       !.ifp.count = 0],
                     ret |-> read_count,
                     data |-> head \o got]
               ELSE [m |-> [f.m EXCEPT !.ifp.ptr = @ + second_read_count,
                                       !.ifp.count = @ - second_read_count],
                     ret |-> read_count,
                     data |-> head \o got]

\* ReadFromCache with the count left as it was (a mutant, for C5)
ReadFromCache_StaleCount(m, reqSize) ==
    [m |-> [m EXCEPT !.ifp.ptr = @ + reqSize],
     ret |-> reqSize,
     data |-> SubSeq(m.ifp.base, m.ifp.ptr + 1, m.ifp.ptr + reqSize)]

\* isio.c:373-379: the cache holds enough for the request
ReadFromCache(m, reqSize) ==
    [m |-> [m EXCEPT !.ifp.ptr = @ + reqSize, !.ifp.count = @ - reqSize],
     ret |-> reqSize,
     data |-> SubSeq(m.ifp.base, m.ifp.ptr + 1, m.ifp.ptr + reqSize)]

\* isioFileRead leaving out the bytes the cache still held when it refills (a
\* mutant, for C37)
isioFileRead_SkipsCached(m, maxToRead) ==
    IF maxToRead = 0
    THEN [m |-> m, ret |-> 0, data |-> <<>>]
    ELSE LET fl == isioFlush(m)
             c  == fl.m.ifp
         IN IF fl.status < 0
            THEN [m |-> fl.m, ret |-> fl.status, data |-> <<>>]
            ELSE IF c.count > 0
                 THEN IF c.count >= maxToRead
                      THEN ReadFromCache(fl.m, maxToRead)
                      ELSE ReadRefill([fl.m EXCEPT !.ifp.ptr = 0, !.ifp.count = 0],
                                      maxToRead - c.count, <<>>)
                 ELSE ReadRefill(fl.m, maxToRead, <<>>)

isioFileRead(m, maxToRead) ==
    IF maxToRead = 0
    THEN [m |-> m, ret |-> 0, data |-> <<>>]
    ELSE LET fl == isioFlush(m)
             c  == fl.m.ifp
         IN IF fl.status < 0
            THEN [m |-> fl.m, ret |-> fl.status, data |-> <<>>]
            ELSE IF c.count > 0
                 THEN IF c.count >= maxToRead
                      THEN ReadFromCache(fl.m, maxToRead)
                      ELSE ReadRefill([fl.m EXCEPT !.ifp.ptr = 0, !.ifp.count = 0],
                                      maxToRead - c.count,
                                      SubSeq(c.base, c.ptr + 1, c.ptr + c.count))
                 ELSE ReadRefill(fl.m, maxToRead, <<>>)

\* ------------------------------------------------------------------------
\* isioFileWrite(ifp, buffer, countToWrite); src is the caller's data.
\* ------------------------------------------------------------------------
\* isio.c:548-605: the first wrtSize bytes of src are in the cache, which is
\* full; the rest is flushed behind them.
WriteOverflow(m, src, first) ==
    LET fl == isioFlush(m)
        m1 == [fl.m EXCEPT !.ifp.ptr = 0, !.ifp.count = 0]
        wrtSize == Len(src) - first
        rest == SubSeq(src, first + 1, Len(src))
    IN IF fl.status < 0
       THEN [m |-> fl.m, ret |-> fl.status]
       ELSE IF wrtSize > ISIO_MAX_BUF_SIZE
            THEN LET w == rcDataObjWrite(m1, rest)
                 IN IF w.status < 0
                    THEN [m |-> w.m, ret |-> w.status]
                    ELSE [m |-> [w.m EXCEPT !.ifp.base_offset =
                                                @ + (m1.ifp.bufferSize + wrtSize)],
                          ret |-> w.status]
            ELSE IF wrtSize > m1.ifp.bufferSize /\ m1.allocFails
            THEN [m |-> [m1 EXCEPT !.ifp.base = NoBlock], ret |-> 0]
            ELSE LET m2 == IF wrtSize > m1.ifp.bufferSize
                           THEN [m1 EXCEPT !.ifp.base = Realloc(@, (2 * wrtSize) + 8),
                                           !.ifp.ptr = 0]
                           ELSE m1
                 IN IF m2.ifp.ptr + wrtSize > Len(m2.ifp.base)
                    THEN [m |-> [m2 EXCEPT !.ub = TRUE], ret |-> 0]
                    ELSE [m |-> [m2 EXCEPT !.ifp.base = Store(@, m2.ifp.ptr, rest),
                                           !.ifp.dirty = TRUE,
                                           !.ifp.ptr = @ + wrtSize,
                                           !.ifp.count = Max(@ - wrtSize, 0)],
                          ret |-> first + wrtSize]

\* WriteToCache without the clamp of count at zero (a mutant, for C6)
WriteToCache_NoClamp(m, part) ==
    [m EXCEPT !.ifp.base = Store(@, m.ifp.ptr, part),
              !.ifp.ptr = @ + Len(part),
              !.ifp.count = @ - Len(part)]

\* isio.c:535-540: copy what fits into the cache at ptr
WriteToCache(m, part) ==
    [m EXCEPT !.ifp.base = Store(@, m.ifp.ptr, part),
              !.ifp.ptr = @ + Len(part),
              !.ifp.count = IF @ - Len(part) < 0 THEN 0 ELSE @ - Len(part)]

isioFileWrite(m, src) ==
    LET countToWrite == Len(src)
        spaceInBuffer == m.ifp.bufferSize - m.ifp.ptr
        \* (countToWrite <= spaceInBuffer) compares a size_t with an int: the int
        \* is converted to unsigned, so a negative spaceInBuffer is a huge value
        wrtSize == IF spaceInBuffer < 0 \/ countToWrite <= spaceInBuffer
                   THEN countToWrite ELSE spaceInBuffer
        m1 == [m EXCEPT !.ifp.dirty = TRUE]
    IN IF countToWrite = 0
       THEN [m |-> m, ret |-> 0]
       ELSE IF m1.ifp.ptr + wrtSize > Len(m1.ifp.base)
            THEN [m |-> [m1 EXCEPT !.ub = TRUE], ret |-> 0]
            ELSE LET m2 == WriteToCache(m1, SubSeq(src, 1, wrtSize))
                 IN IF wrtSize = countToWrite
                    THEN [m |-> m2, ret |-> wrtSize]
                    ELSE WriteOverflow(m2, src, wrtSize)

\* ------------------------------------------------------------------------
\* irodsfread, irodsfwrite on a registered handle: the int the handler returns
\* is converted to size_t and divided by itemsize
\* ------------------------------------------------------------------------
\* isio.c:477, 615: r is what the handler returned; ret is the number of
\* items the wrapper returns, bytes what the handler returned
ItemsOf(r, itemsize) ==
    [m |-> r.m, ret |-> ToSizeT(r.ret) \div itemsize, bytes |-> r.ret,
     data |-> IF "data" \in DOMAIN r THEN r.data ELSE <<>>]

irodsfread(m, itemsize, nitems) == ItemsOf(isioFileRead(m, itemsize * nitems), itemsize)

irodsfwrite(m, src, itemsize) == ItemsOf(isioFileWrite(m, src), itemsize)

\* ------------------------------------------------------------------------
\* offset_in_current_buffer and isioFileSeek
\* ------------------------------------------------------------------------
\* offset_in_current_buffer taking every positive SEEK_CUR offset as in the
\* buffer (a mutant, for C34)
offset_in_current_buffer_PastEnd(c, offset, whence) ==
    IF c.bufferSize <= 0 \/ c.ptr + c.count <= 0
    THEN [in |-> FALSE, adj |-> 0]
    ELSE IF whence = SEEK_SET
         THEN IF offset >= 0 /\ offset >= c.base_offset
                 /\ offset < (c.base_offset + c.ptr) + c.count
              THEN [in |-> TRUE, adj |-> (offset - c.base_offset) - c.ptr]
              ELSE [in |-> FALSE, adj |-> 0]
         ELSE IF whence = SEEK_CUR
              THEN IF offset > 0
                   THEN [in |-> TRUE, adj |-> offset]
                   ELSE IF offset < 0
                        THEN IF c.ptr + offset > 0
                             THEN [in |-> TRUE, adj |-> offset]
                             ELSE [in |-> FALSE, adj |-> 0]
                        ELSE [in |-> TRUE, adj |-> 0]
              ELSE [in |-> FALSE, adj |-> 0]

offset_in_current_buffer(c, offset, whence) ==
    IF c.bufferSize <= 0 \/ c.ptr + c.count <= 0
    THEN [in |-> FALSE, adj |-> 0]
    ELSE IF whence = SEEK_SET
         THEN IF offset >= 0 /\ offset >= c.base_offset
                 /\ offset < (c.base_offset + c.ptr) + c.count
              THEN [in |-> TRUE, adj |-> (offset - c.base_offset) - c.ptr]
              ELSE [in |-> FALSE, adj |-> 0]
         ELSE IF whence = SEEK_CUR
              THEN IF offset > 0
                   THEN IF offset <= c.count
                        THEN [in |-> TRUE, adj |-> offset]
                        ELSE [in |-> FALSE, adj |-> 0]
                   ELSE IF offset < 0
                        THEN IF c.ptr + offset > 0
                             THEN [in |-> TRUE, adj |-> offset]
                             ELSE [in |-> FALSE, adj |-> 0]
                        ELSE [in |-> TRUE, adj |-> 0]
              ELSE [in |-> FALSE, adj |-> 0]

\* isioFileSeek without the flush before the remote seek (a mutant, for C8)
isioFileSeek_NoFlush(m, offset, whence) ==
    LET o == offset_in_current_buffer(m.ifp, offset, whence)
    IN IF o.in
       THEN [m |-> [m EXCEPT !.ifp.ptr = @ + o.adj, !.ifp.count = @ - o.adj],
             ret |-> 0]
       ELSE LET s  == rcDataObjLseek(m, offset, whence, "seek")
                t  == isioFileTell(s.m)
            IN [m |-> [t.m EXCEPT !.ifp.base_offset = t.ret - s.status,
                                  !.ifp.ptr = 0,
                                  !.ifp.count = 0],
                ret |-> IF s.status > 0 THEN 0 ELSE s.status]

isioFileSeek(m, offset, whence) ==
    LET o == offset_in_current_buffer(m.ifp, offset, whence)
    IN IF o.in
       THEN [m |-> [m EXCEPT !.ifp.ptr = @ + o.adj, !.ifp.count = @ - o.adj],
             ret |-> 0]
       ELSE LET fl == isioFlush(m)
                s  == rcDataObjLseek(fl.m, offset, whence, "seek")
                t  == isioFileTell(s.m)
            IN IF fl.status < 0
               THEN [m |-> fl.m, ret |-> fl.status]
               ELSE [m |-> [t.m EXCEPT !.ifp.base_offset = t.ret - s.status,
                                       !.ifp.ptr = 0,
                                       !.ifp.count = 0],
                     ret |-> IF s.status > 0 THEN 0 ELSE s.status]

\* ------------------------------------------------------------------------
\* isioFilePutc, isioFileGetc
\* ------------------------------------------------------------------------
EOF == -1

\* Both handlers pass the address of a local int (mychar) as a buffer of one
\* byte.  An int is IntWidth bytes, the byte at the lowest address being the
\* least significant one (the byte order of the little-endian machines the
\* library is built for).
IntWidth == 4
IntBytes(x) == [k \in 1..IntWidth |-> (x \div (256 ^ (k - 1))) % 256]
RECURSIVE IntValue(_)
IntValue(b) == IF b = <<>> THEN 0 ELSE b[1] + 256 * IntValue(Tail(b))

\* isio.c:892-899: mychar = inchar; the first byte of mychar is written
isioFilePutc(m, inchar) == isioFileWrite(m, SubSeq(IntBytes(inchar), 1, 1))

\* isio.c:919-928: mychar after isioFileRead (which returned r) has stored
\* the byte it read, if any, into the first byte of the zeroed int
mychar(r) ==
    IF r.ret >= 1 THEN [IntBytes(0) EXCEPT ![1] = r.data[1]] ELSE IntBytes(0)

\* isio.c:924-928: what isioFileGetc returns when isioFileRead returned r
\* (status is what isioFileRead returned)
GetcReturns(r) ==
    [m |-> r.m,
     ret |-> IF r.ret = 0 THEN EOF ELSE IF r.ret < 0 THEN r.ret ELSE IntValue(mychar(r)),
     data |-> r.data, status |-> r.ret]

\* isioFileGetc returning mychar, still 0, when the read yields no byte (a
\* mutant, for C20)
isioFileGetc_NoEOF(m) ==
    [GetcReturns(isioFileRead(m, 1)) EXCEPT !.ret = IF @ = EOF THEN 0 ELSE @]

\* isio.c:917-929
isioFileGetc(m) == GetcReturns(isioFileRead(m, 1))

\* ------------------------------------------------------------------------
\* isioFileClose: flush, destroy_isio_file, rcDataObjClose.  order lists the
\* steps the call performs, in the order it performs them.
\* ------------------------------------------------------------------------
isioFileClose(m) ==
    LET fl == isioFlush(m)
    IN IF fl.status < 0
       THEN [m |-> fl.m, ret |-> fl.status, destroyed |-> FALSE,
             order |-> <<"rcDataObjWrite">>]
       ELSE [m |-> [fl.m EXCEPT !.calls = Append(@, "close"),
                                !.failed = @ \/ Fails(fl.m),
                                !.failedAt = IF Fails(fl.m)
                                             THEN Len(fl.m.calls) + 1 ELSE @],
             ret |-> IF Fails(fl.m) THEN RemoteErr ELSE 0,
             destroyed |-> TRUE,
             order |-> (IF m.ifp.dirty THEN <<"rcDataObjWrite">> ELSE <<>>)
                       \o <<"destroy_isio_file", "rcDataObjClose">>]

\* ------------------------------------------------------------------------
\* The session: setupFlag, the connection Comm points at (connections are
\* numbered from 1 in the order rcConnect makes them, NoComm for NULL), the
\* number of connections made, those disconnected, and whether the process
\* has exited.
\* ------------------------------------------------------------------------
NoComm == 0

NoSession ==
    [setupFlag |-> 0, Comm |-> NoComm, nconnect |-> 0, disconnected |-> {},
     exited |-> FALSE]

\* isio.c:72-117.  rcConnect succeeds (connectOK) or returns NULL; clientLogin
\* returns 0 (loginOK) or an error status.  getRodsEnv failing is only logged.
isioSetup(s, connectOK, loginOK) ==
    IF s.setupFlag # 0
    THEN [session |-> s, status |-> 0, order |-> <<>>]
    ELSE IF ~connectOK
    THEN [session |-> [s EXCEPT !.Comm = NoComm], status |-> RemoteErr,
          order |-> <<"getRodsEnv", "rcConnect">>]
    ELSE [session |-> [s EXCEPT !.Comm = s.nconnect + 1,
                                !.nconnect = @ + 1,
                                !.setupFlag = IF loginOK THEN 1 ELSE @],
          status |-> IF loginOK THEN 0 ELSE RemoteErr,
          order |-> <<"getRodsEnv", "rcConnect", "clientLogin">>]

\* ------------------------------------------------------------------------
\* The handle table _cacheInfo.  A pointer to an ISIO_FILE is a number from 1
\* on; the FILE * that irodsfopen returns is the slot index + 1, which is
\* the 1-based position in the sequence that models the array.
\* ------------------------------------------------------------------------
NULL == 0

\* add_to_map taking the last slot over when none is NULL (a mutant, for C12)
add_to_map_Overwrite(table, p) ==
    LET free == {i \in 1..ISIO_MAX_OPEN_FILES : table[i] = NULL}
        i == IF free = {} THEN ISIO_MAX_OPEN_FILES
             ELSE CHOOSE k \in free : \A j \in free : k <= j
    IN IF p = NULL
       THEN [table |-> table, ret |-> NULL]
       ELSE [table |-> [table EXCEPT ![i] = p], ret |-> i]

\* isio.c:160-178: returns the table and the FILE * (NULL when ifp is NULL or
\* no slot is NULL)
add_to_map(table, p) ==
    LET free == {i \in 1..ISIO_MAX_OPEN_FILES : table[i] = NULL}
        i == CHOOSE k \in free : \A j \in free : k <= j
    IN IF p = NULL \/ free = {}
       THEN [table |-> table, ret |-> NULL]
       ELSE [table |-> [table EXCEPT ![i] = p], ret |-> i]

\* isio.c:180-187
is_in_map(table, idx) ==
    IF idx - 1 >= 0 /\ idx - 1 < ISIO_MAX_OPEN_FILES THEN table[idx] ELSE NULL

\* ------------------------------------------------------------------------
\* State
\* ------------------------------------------------------------------------
VARIABLES
    ifp,        \* the ISIO_FILE
    obj,        \* the bytes of the remote data object
    rpos,       \* the position of the remote descriptor l1descInx
    closed,     \* isioFileClose has destroyed the ISIO_FILE
    ub,         \* a handler has run into undefined behaviour
    op,         \* the last call: what was asked, what it returned, what it called
    refObj,     \* the object as an unbuffered stream would have left it
    refPos,     \* the position of that unbuffered stream
    allOK,      \* no remote call has failed so far
    trail,      \* the calls made so far, oldest first
    cacheInfo,  \* _cacheInfo: slot i holds a pointer to an ISIO_FILE, or NULL
    files,      \* the ISIO_FILEs allocated and not freed, by pointer
    descs,      \* the descriptors (l1descInx) open in the remote session
    nalloc,     \* the number of ISIO_FILEs allocated so far
    tub,        \* a call has used a freed ISIO_FILE
    tcall,      \* the last call made through the table
    session     \* setupFlag, Comm and the connections of the process

\* the state of the one handle
hvars == <<ifp, obj, rpos, closed, ub, op, refObj, refPos, allOK, trail>>
\* the state of the handle table and of the session
tvars == <<cacheInfo, files, descs, nalloc, tub, tcall, session>>
vars == <<hvars, tvars>>

\* ------------------------------------------------------------------------
\* The inputs
\* ------------------------------------------------------------------------
Sizes == {0, 1, 2, ISIO_INITIAL_BUF_SIZE, ISIO_INITIAL_BUF_SIZE + 1, ISIO_MAX_BUF_SIZE + 1}
ReadSizes == Sizes
WriteSizes == Sizes \cup {ISIO_INITIAL_BUF_SIZE + ISIO_MAX_BUF_SIZE + 1}
\* the item size a request of n bytes is made with: 2 for the even sizes
ItemSize(n) == IF n > 0 /\ n % 2 = 0 THEN 2 ELSE 1
SeekArgs ==
    ({0, 1, ISIO_INITIAL_BUF_SIZE, ObjLen + 1} \X {SEEK_SET})
    \cup ({-2, -1, 0, 1} \X {SEEK_CUR})
    \cup ({-1, 0} \X {SEEK_END})
\* which remote call of a handler fails: none
NoFailure == {0}
\* which remote call of a handler fails: none, the first, ... the MaxFailAt-th
AnyFailure == 0..MaxFailAt

\* ------------------------------------------------------------------------
\* The unbuffered reference stream: one position, every call acts on the
\* object directly at that position.
\* ------------------------------------------------------------------------
RefRead(n) == SubSeq(refObj, refPos + 1, Min(Len(refObj), refPos + n))
RefTarget(offset, whence) ==
    IF whence = SEEK_SET THEN offset
    ELSE IF whence = SEEK_CUR THEN refPos + offset
    ELSE Len(refObj) + offset

\* ------------------------------------------------------------------------
\* Actions: one per public call on the handle
\* ------------------------------------------------------------------------
Machine(f) ==
    [ifp |-> ifp, obj |-> obj, rpos |-> rpos, calls |-> <<>>,
     failAt |-> f, failed |-> FALSE, failedAt |-> 0, ub |-> FALSE,
     allocFails |-> FALSE]

steps == Len(trail)

Live(limit) == ~closed /\ ~ub /\ steps < limit

\* The record of a call: its name and arguments (arg is the byte count of a
\* read or write, the offset of a seek), what it returned, the bytes it
\* delivered (read) or was given (write), the bytes the reference stream
\* delivers for it (want), the remote calls it made, whether one of them
\* failed and which was the first to fail (failedAt, 0 for none), whether a
\* seek was resolved inside the buffer (local), and the
\* ISIO_FILE, the reference position and the remote position before it.
\* For irodsfread and irodsfwrite, ret is what the handler returned (bytes or
\* a negative status), itemsize the size of an item and items what the
\* wrapper returned.  For getc, items is what its isioFileRead returned; for
\* putc, inchar is the character passed and data the byte it stands for.
NoOp == [name |-> "open", arg |-> 0, whence |-> 0, ret |-> 0, data |-> <<>>,
         want |-> <<>>, calls |-> <<>>, failed |-> FALSE, local |-> FALSE,
         pre |-> new_isio_file, pos |-> 0, rpos0 |-> 0,
         itemsize |-> 1, items |-> 0, inchar |-> 0, failedAt |-> 0]

\* offset lies in the logical range the buffer represents (section 4.7 of the
\* specification): windowBase <= offset < windowBase + cursor + unreadCount
InWindow(c, offset) ==
    c.base_offset <= offset /\ offset < c.base_offset + c.ptr + c.count

\* what the trail keeps of a call
Brief(rec) == [name |-> rec.name, arg |-> rec.arg, whence |-> rec.whence,
               local |-> rec.local, ret |-> rec.ret, pos |-> refPos,
               inWindow |-> InWindow(ifp, rec.arg)]

\* the part of the next state every call sets the same way
Commit(m, rec) ==
    /\ ifp' = m.ifp
    /\ obj' = m.obj
    /\ rpos' = m.rpos
    /\ ub' = m.ub
    /\ allOK' = (allOK /\ ~m.failed /\ ~m.ub)
    /\ op' = [rec EXCEPT !.calls = m.calls, !.failed = m.failed,
                         !.pre = ifp, !.pos = refPos, !.rpos0 = rpos,
                         !.failedAt = m.failedAt]
    /\ trail' = Append(trail, Brief(rec))
    /\ UNCHANGED tvars

\* The record of a call made through the table: its name, the FILE * it was
\* given (id), what it returned, whether rcDataObjOpen succeeded (open), the
\* number of calls so far, the steps it performed in their order, and the
\* table, the ISIO_FILEs, the descriptors and the session before it.
NoCall == [name |-> "start", id |-> NULL, ret |-> 0, remoteOK |-> TRUE, n |-> 0,
           table |-> <<>>, files |-> {}, descs |-> {}, order |-> <<>>,
           session |-> NoSession]

\* isio.c:120: every slot of _cacheInfo starts NULL; nothing is open
TableInit ==
    /\ cacheInfo = [i \in 1..ISIO_MAX_OPEN_FILES |-> NULL]
    /\ files = {}
    /\ descs = {}
    /\ nalloc = 0
    /\ tub = FALSE
    /\ tcall = NoCall
    /\ session = NoSession

Init ==
    /\ ifp = new_isio_file
    /\ obj = InitialObject(ObjLen)
    /\ refObj = InitialObject(ObjLen)
    /\ rpos = 0
    /\ closed = FALSE
    /\ ub = FALSE
    /\ op = NoOp
    /\ refPos = 0
    /\ allOK = TRUE
    /\ trail = <<>>
    /\ TableInit

\* the state after irodsfread has returned r
ReadDone(r, itemsize, n) ==
    /\ Commit(r.m, [NoOp EXCEPT !.name = "read", !.arg = n, !.ret = r.bytes,
                                !.data = r.data, !.want = RefRead(n),
                                !.itemsize = itemsize, !.items = r.ret])
    /\ refPos' = refPos + Len(RefRead(n))
    /\ UNCHANGED <<closed, refObj>>

Read(itemsize, nitems, f, limit) ==
    /\ Live(limit)
    /\ ReadDone(irodsfread(Machine(f), itemsize, nitems), itemsize, itemsize * nitems)

\* the state after irodsfwrite, given src, has returned r
WriteDone(r, itemsize, src) ==
    /\ Commit(r.m, [NoOp EXCEPT !.name = "write", !.arg = Len(src), !.ret = r.bytes,
                                !.data = src,
                                !.itemsize = itemsize, !.items = r.ret])
    /\ refObj' = IF Len(src) > 0 THEN Place(refObj, refPos, src) ELSE refObj
    /\ refPos' = refPos + Len(src)
    /\ UNCHANGED closed

Write(itemsize, nitems, f, limit) ==
    /\ Live(limit)
    /\ WriteDone(irodsfwrite(Machine(f), SrcData(steps + 1, itemsize * nitems), itemsize),
                 itemsize, SrcData(steps + 1, itemsize * nitems))

Seek(offset, whence, f, limit) ==
    /\ Live(limit)
    /\ LET r == isioFileSeek(Machine(f), offset, whence)
           t == RefTarget(offset, whence)
       IN /\ Commit(r.m, [NoOp EXCEPT !.name = "seek", !.arg = offset, !.whence = whence,
                                      !.ret = r.ret,
                                      !.local = offset_in_current_buffer(ifp, offset, whence).in])
          /\ refPos' = IF t >= 0 THEN t ELSE refPos
    /\ UNCHANGED <<closed, refObj>>

Tell(f, limit) ==
    /\ Live(limit)
    /\ LET r == isioFileTell(Machine(f))
       IN Commit(r.m, [NoOp EXCEPT !.name = "tell", !.ret = r.ret])
    /\ UNCHANGED <<closed, refObj, refPos>>

Flush(f, limit) ==
    /\ Live(limit)
    /\ LET r == isioFlush(Machine(f))
       IN Commit(r.m, [NoOp EXCEPT !.name = "flush", !.ret = r.status])
    /\ UNCHANGED <<closed, refObj, refPos>>

Close(f, limit) ==
    /\ Live(limit)
    /\ LET r == isioFileClose(Machine(f))
       IN /\ Commit(r.m, [NoOp EXCEPT !.name = "close", !.ret = r.ret])
          /\ closed' = r.destroyed
    /\ UNCHANGED <<refObj, refPos>>

Call(f, limit) ==
    \/ \E n \in ReadSizes : Read(ItemSize(n), n \div ItemSize(n), f, limit)
    \/ \E n \in WriteSizes : Write(ItemSize(n), n \div ItemSize(n), f, limit)
    \/ \E a \in SeekArgs : Seek(a[1], a[2], f, limit)
    \/ Tell(f, limit)
    \/ Flush(f, limit)
    \/ Close(f, limit)

\* every remote call succeeds, but for a seek before the start of the object
Next == \E f \in NoFailure : Call(f, MaxOps)

Spec == Init /\ [][Next]_vars

\* the same calls; one remote call of the run may be made to fail
NextFail == \E f \in (IF allOK THEN AnyFailure ELSE NoFailure) : Call(f, MaxOpsFail)

SpecFail == Init /\ [][NextFail]_vars

\* ------------------------------------------------------------------------
\* The same calls with every remote call succeeding, where a read or a write
\* may find realloc returning NULL.  The run is followed up to the first such
\* failure, which leaves ifp->base NULL.
\* ------------------------------------------------------------------------
\* number of calls of a run with allocation failures
MaxOpsAlloc == 3

OutOfMemory(m) == [m EXCEPT !.allocFails = TRUE]

ReadNoMem(itemsize, nitems, limit) ==
    /\ Live(limit)
    /\ ReadDone(irodsfread(OutOfMemory(Machine(0)), itemsize, nitems),
                itemsize, itemsize * nitems)

WriteNoMem(itemsize, nitems, limit) ==
    /\ Live(limit)
    /\ WriteDone(irodsfwrite(OutOfMemory(Machine(0)),
                             SrcData(steps + 1, itemsize * nitems), itemsize),
                 itemsize, SrcData(steps + 1, itemsize * nitems))

NextAlloc ==
    /\ ifp.base # NoBlock
    /\ \/ \E f \in NoFailure : Call(f, MaxOpsAlloc)
       \/ \E n \in ReadSizes : ReadNoMem(ItemSize(n), n \div ItemSize(n), MaxOpsAlloc)
       \/ \E n \in WriteSizes : WriteNoMem(ItemSize(n), n \div ItemSize(n), MaxOpsAlloc)

SpecAlloc == Init /\ [][NextAlloc]_vars

\* ------------------------------------------------------------------------
\* A handle that is only written: writes and flush calls, then close, every
\* remote call succeeding.
\* ------------------------------------------------------------------------
\* number of calls of a run of writes
MaxWriteOps == 4

NextWrites ==
    \/ \E n \in WriteSizes : Write(ItemSize(n), n \div ItemSize(n), 0, MaxWriteOps)
    \/ Flush(0, MaxWriteOps)
    \/ Close(0, MaxWriteOps)

SpecWrites == Init /\ [][NextWrites]_vars

\* ------------------------------------------------------------------------
\* Character calls on the one handle: irodsfgetc and irodsfputc, with seeks to
\* move about the object and flushes; one remote call of the run may fail.
\* ------------------------------------------------------------------------
\* number of calls of a run of character calls
MaxCharOps == 3
\* the characters passed to putc: 321 is beyond a byte and stands for 65
PutChars == {1, 65, 321}

\* the state after irodsfgetc has returned r
GetcDone(r) ==
    /\ Commit(r.m, [NoOp EXCEPT !.name = "getc", !.arg = 1, !.ret = r.ret,
                                !.data = r.data, !.want = RefRead(1),
                                !.items = r.status])
    /\ refPos' = refPos + Len(RefRead(1))
    /\ UNCHANGED <<closed, refObj>>

Getc(f, limit) ==
    /\ Live(limit)
    /\ GetcDone(isioFileGetc(Machine(f)))

\* the state after irodsfputc(inchar) has returned r
PutcDone(r, inchar) ==
    /\ Commit(r.m, [NoOp EXCEPT !.name = "putc", !.arg = 1, !.ret = r.ret,
                                !.inchar = inchar,
                                !.data = <<inchar % 256>>])
    /\ refObj' = Place(refObj, refPos, <<inchar % 256>>)
    /\ refPos' = refPos + 1
    /\ UNCHANGED closed

Putc(inchar, f, limit) ==
    /\ Live(limit)
    /\ PutcDone(isioFilePutc(Machine(f), inchar), inchar)

NextChar ==
    \E f \in (IF allOK THEN AnyFailure ELSE NoFailure) :
        \/ Getc(f, MaxCharOps)
        \/ \E c \in PutChars : Putc(c, f, MaxCharOps)
        \/ \E a \in SeekArgs : Seek(a[1], a[2], f, MaxCharOps)
        \/ Flush(f, MaxCharOps)

SpecChar == Init /\ [][NextChar]_vars

\* ------------------------------------------------------------------------
\* Calls through the handle table: irodsfopen, irodsfclose and irodsfflush on
\* the FILE * values irodsfopen has returned.  The ISIO_FILEs of this part
\* are never written, so their flush is the no-op of a clean handle.
\* ------------------------------------------------------------------------
\* the ISIO_FILE at pointer p is allocated (not freed)
Allocated(p) == \E r \in files : r.ptr = p
FileAt(p) == CHOOSE r \in files : r.ptr = p

\* the descriptor rcDataObjOpen returns: the lowest one not open
NewDesc == CHOOSE d \in 1..(Cardinality(descs) + 1) : d \notin descs

TableMachine(r, f) ==
    [ifp |-> r.ifp, obj |-> <<>>, rpos |-> 0, calls |-> <<>>,
     failAt |-> f, failed |-> FALSE, failedAt |-> 0, ub |-> FALSE,
     allocFails |-> FALSE]

TableLive == ~tub /\ ~session.exited /\ tcall.n < MaxTableCalls

TableCommit(rec) ==
    /\ tcall' = [rec EXCEPT !.n = tcall.n + 1, !.table = cacheInfo,
                            !.files = files, !.descs = descs,
                            !.session = session]
    /\ UNCHANGED hvars

\* the state after irodsfopen, given that isioSetup has returned st
OpenDone(st, remoteOK) ==
    /\ session' = st.session
    /\ IF st.status = 0 /\ remoteOK
       THEN LET p == nalloc + 1
                a == add_to_map(cacheInfo, p)
            IN /\ descs' = descs \cup {NewDesc}
               /\ files' = files \cup {[ptr |-> p, l1descInx |-> NewDesc,
                                         ifp |-> new_isio_file]}
               /\ nalloc' = nalloc + 1
               /\ cacheInfo' = a.table
               /\ TableCommit([NoCall EXCEPT !.name = "open", !.ret = a.ret,
                      !.order = st.order \o <<"rcDataObjOpen", "new_isio_file",
                                              "add_to_map">>])
       ELSE /\ TableCommit([NoCall EXCEPT !.name = "open", !.ret = NULL,
                      !.remoteOK = FALSE,
                      !.order = IF st.status = 0
                                THEN st.order \o <<"rcDataObjOpen">>
                                ELSE st.order])
            /\ UNCHANGED <<cacheInfo, files, descs, nalloc>>

\* isio.c:266-279 with isioFileOpen (198-247), isioSetup (72-117) and
\* new_isio_file (124-145): the setup succeeds or fails at rcConnect or at
\* clientLogin, and rcDataObjOpen succeeds (remoteOK) or returns a negative
\* status
irodsfopen(connectOK, loginOK, remoteOK) ==
    /\ TableLive
    /\ nalloc < MaxOpens
    /\ OpenDone(isioSetup(session, connectOK, loginOK), remoteOK)
    /\ UNCHANGED tub

\* isio.c:643-657 with isioFileClose (623-641): the slot is left as it is
irodsfclose(id, f) ==
    /\ TableLive
    /\ is_in_map(cacheInfo, id) # NULL
    /\ LET p == is_in_map(cacheInfo, id)
       IN IF ~Allocated(p)
          THEN /\ tub' = TRUE
               /\ TableCommit([NoCall EXCEPT !.name = "close", !.id = id])
               /\ UNCHANGED <<files, descs>>
          ELSE LET r == isioFileClose(TableMachine(FileAt(p), f))
               IN /\ files' = IF r.destroyed THEN files \ {FileAt(p)} ELSE files
                  /\ descs' = IF r.destroyed /\ ~r.m.failed
                               THEN descs \ {FileAt(p).l1descInx} ELSE descs
                  /\ TableCommit([NoCall EXCEPT !.name = "close", !.id = id,
                                                !.ret = r.ret,
                                                !.order = r.order])
                  /\ UNCHANGED tub
    /\ UNCHANGED <<cacheInfo, nalloc, session>>

\* isio.c:875-890 with isioFlush (843-873)
irodsfflush(id) ==
    /\ TableLive
    /\ is_in_map(cacheInfo, id) # NULL
    /\ LET p == is_in_map(cacheInfo, id)
       IN IF ~Allocated(p)
          THEN /\ tub' = TRUE
               /\ TableCommit([NoCall EXCEPT !.name = "flush", !.id = id])
          ELSE /\ TableCommit([NoCall EXCEPT !.name = "flush", !.id = id,
                     !.ret = isioFlush(TableMachine(FileAt(p), 0)).status])
               /\ UNCHANGED tub
    /\ UNCHANGED <<cacheInfo, files, descs, nalloc, session>>

NextTable ==
    \/ \E connectOK, loginOK, remoteOK \in BOOLEAN :
          irodsfopen(connectOK, loginOK, remoteOK)
    \/ \E id \in 1..ISIO_MAX_OPEN_FILES : \E f \in {0, 1} : irodsfclose(id, f)
    \/ \E id \in 1..ISIO_MAX_OPEN_FILES : irodsfflush(id)

SpecTable == Init /\ [][NextTable]_vars

\* ------------------------------------------------------------------------
\* The life of the process: opens, writes that leave handles dirty, closes
\* and irodsexit.
\* ------------------------------------------------------------------------
\* number of calls of a run that ends with irodsexit
MaxSessionCalls == 4

\* the state after a write through the table on the ISIO_FILE F has returned r
TableWriteDone(r, F, id) ==
    /\ files' = (files \ {F}) \cup {[F EXCEPT !.ifp = r.m.ifp]}
    /\ TableCommit([NoCall EXCEPT !.name = "write", !.id = id, !.ret = r.ret,
                                  !.order = r.m.calls])

\* isio.c:607-621 with isioFileWrite (506-605): one byte written on handle id
TableWrite(id) ==
    /\ TableLive
    /\ is_in_map(cacheInfo, id) # NULL
    /\ IF ~Allocated(is_in_map(cacheInfo, id))
       THEN /\ tub' = TRUE
            /\ TableCommit([NoCall EXCEPT !.name = "write", !.id = id])
            /\ UNCHANGED files
       ELSE /\ TableWriteDone(isioFileWrite(TableMachine(FileAt(is_in_map(cacheInfo, id)), 0),
                                            SrcData(1, 1)),
                              FileAt(is_in_map(cacheInfo, id)), id)
            /\ UNCHANGED tub
    /\ UNCHANGED <<cacheInfo, descs, nalloc, session>>

\* isio.c:948-958: rcDisconnect when setupFlag > 0, then exit; the ISIO_FILEs
\* are left as they are
irodsexit ==
    /\ TableLive
    /\ session' = [session EXCEPT
                      !.disconnected = IF session.setupFlag > 0
                                       THEN @ \cup {session.Comm} ELSE @,
                      !.exited = TRUE]
    /\ TableCommit([NoCall EXCEPT !.name = "exit",
           !.order = IF session.setupFlag > 0 THEN <<"rcDisconnect", "exit">>
                     ELSE <<"exit">>])
    /\ UNCHANGED <<cacheInfo, files, descs, nalloc, tub>>

NextSession ==
    /\ tcall.n < MaxSessionCalls
    /\ \/ \E connectOK, loginOK, remoteOK \in BOOLEAN :
             irodsfopen(connectOK, loginOK, remoteOK)
       \/ \E id \in 1..ISIO_MAX_OPEN_FILES : TableWrite(id)
       \/ \E id \in 1..ISIO_MAX_OPEN_FILES : \E f \in {0, 1} : irodsfclose(id, f)
       \/ irodsexit

SpecSession == Init /\ [][NextSession]_vars

\* ------------------------------------------------------------------------
\* Claims
\* ------------------------------------------------------------------------

\* C1 (as claimed): after every call on the handle, 0 <= cursor <= bufferCapacity
\* and cursor + unreadCount <= bufferCapacity, with cursor = ptr - base,
\* unreadCount = count and bufferCapacity = bufferSize.
C1_BoundsInvariant ==
    (~closed /\ ~ub) =>
        /\ 0 <= ifp.ptr
        /\ ifp.ptr <= ifp.bufferSize
        /\ ifp.ptr + ifp.count <= ifp.bufferSize

\* the calls of the trail are all read, write or seek calls, but for a last close
OnlyReadWriteSeek ==
    \A i \in 1..Len(trail) :
        \/ trail[i].name \in {"read", "write", "seek"}
        \/ i = Len(trail) /\ trail[i].name = "close"

\* C2 (as claimed): with every remote call succeeding, each read of a sequence
\* of read, write and seek calls returns the bytes the unbuffered reference
\* stream returns, and after close the remote object is the reference object.
C2_StreamEquivalence ==
    (allOK /\ OnlyReadWriteSeek) =>
        /\ op.name = "read" => (op.ret = Len(op.want) /\ op.data = op.want)
        /\ closed => obj = refObj

\* the sizes of the round trip: 1, the initial capacity, one more, the maximum + 1
RoundTripSizes ==
    {1, ISIO_INITIAL_BUF_SIZE, ISIO_INITIAL_BUF_SIZE + 1, ISIO_MAX_BUF_SIZE + 1}

\* the trail is: write n bytes on the fresh handle, seek(0, SEEK_SET), read n bytes
IsRoundTrip(n) ==
    /\ Len(trail) = 3
    /\ trail[1].name = "write" /\ trail[1].arg = n
    /\ trail[2].name = "seek" /\ trail[2].arg = 0 /\ trail[2].whence = SEEK_SET
    /\ trail[3].name = "read" /\ trail[3].arg = n

\* C3 (as claimed): on a freshly opened handle, writing N bytes at offset 0,
\* seeking to 0 and reading N bytes returns the N bytes written, for each N
\* of RoundTripSizes.
C3_RoundTrip ==
    \A n \in RoundTripSizes :
        IsRoundTrip(n) => (op.ret = n /\ op.data = SrcData(1, n))

\* the round trip does return the bytes written for the sizes that fit the buffer
C3_RoundTripFits ==
    \A n \in {1, ISIO_INITIAL_BUF_SIZE} :
        IsRoundTrip(n) => (op.ret = n /\ op.data = SrcData(1, n))

\* the logical positions written by the write and putc calls made since the
\* last explicit flush call, the last call of the trail left out
JustWritten ==
    LET n == Len(trail) - 1
        since == {i \in 1..n : \A j \in i..n : trail[j].name # "flush"}
    IN UNION {trail[i].pos .. (trail[i].pos + trail[i].arg - 1) :
                i \in {k \in since : trail[k].name \in {"write", "putc"}}}

\* C4 (as claimed): a read issued after writes with no explicit flush call in
\* between flushes the dirty buffer before any other remote call, and the
\* bytes it returns for positions just written are the bytes written there.
C4_WriteThenRead ==
    (op.name = "read" /\ op.arg > 0 /\ allOK) =>
        /\ op.pre.dirty => (op.calls # <<>> /\ op.calls[1] = "write" /\ ~ifp.dirty)
        /\ \A i \in 1..Len(op.data) :
              (op.pos + i - 1) \in JustWritten => op.data[i] = refObj[op.pos + i]

\* the first half of C4 alone: the flush comes first
C4_FlushFirst ==
    (op.name = "read" /\ op.arg > 0 /\ allOK /\ op.pre.dirty) =>
        (op.calls # <<>> /\ op.calls[1] = "write" /\ ~ifp.dirty)

\* C5 (as claimed): a read of n bytes on a handle with unreadCount >= n makes
\* no remote call of any kind, returns n, advances cursor by n and decreases
\* unreadCount by n.
C5_ReadFastPath ==
    (op.name = "read" /\ op.pre.count >= op.arg) =>
        /\ op.calls = <<>>
        /\ op.ret = op.arg
        /\ ifp.ptr = op.pre.ptr + op.arg
        /\ ifp.count = op.pre.count - op.arg

\* C5 (amended): a read of n bytes on a handle with unreadCount >= n makes no
\* remote call when the handle is not dirty or n = 0, and exactly one, the
\* flush write, when the handle is dirty and n > 0; unless that write fails
\* it returns n, advances cursor by n and decreases unreadCount by n.
C5_ReadFastPathAmended ==
    (op.name = "read" /\ op.pre.count >= op.arg) =>
        /\ op.calls = (IF op.pre.dirty /\ op.arg > 0 THEN <<"write">> ELSE <<>>)
        /\ ~op.failed =>
              /\ op.ret = op.arg
              /\ ifp.ptr = op.pre.ptr + op.arg
              /\ ifp.count = op.pre.count - op.arg
              /\ op.data = SubSeq(op.pre.base, op.pre.ptr + 1, op.pre.ptr + op.arg)

\* a read of at least one byte served from the cache of a clean handle
C5_Witness ==
    /\ op.name = "read" /\ op.arg >= 1 /\ op.pre.count >= op.arg
    /\ ~op.pre.dirty /\ op.calls = <<>> /\ op.ret = op.arg

\* a read served from the cache of a dirty handle, after its flush
C5_WitnessDirty ==
    /\ op.name = "read" /\ op.arg >= 1 /\ op.pre.count >= op.arg
    /\ op.pre.dirty /\ op.calls = <<"write">> /\ op.ret = op.arg

\* C6 (as claimed): a write of n bytes with n <= bufferCapacity - cursor makes
\* no remote call, returns n, sets dirty, advances cursor by n and decreases
\* unreadCount by n but never below zero.
C6_WriteFastPath ==
    (op.name = "write" /\ op.arg <= op.pre.bufferSize - op.pre.ptr) =>
        /\ op.calls = <<>>
        /\ op.ret = op.arg
        /\ ifp.dirty
        /\ ifp.ptr = op.pre.ptr + op.arg
        /\ ifp.count = Max(op.pre.count - op.arg, 0)

\* C6 (amended): a write of n >= 1 bytes with n <= bufferCapacity - cursor
\* makes no remote call, returns n, sets dirty, advances cursor by n and
\* decreases unreadCount by n but never below zero; the bytes are in the
\* buffer at the old cursor.  (A write of 0 bytes returns 0 and changes
\* nothing, dirty included.)
C6_WriteFastPathAmended ==
    /\ (op.name = "write" /\ op.arg >= 1 /\ op.arg <= op.pre.bufferSize - op.pre.ptr) =>
          /\ op.calls = <<>>
          /\ op.ret = op.arg
          /\ ifp.dirty
          /\ ifp.ptr = op.pre.ptr + op.arg
          /\ ifp.count = Max(op.pre.count - op.arg, 0)
          /\ SubSeq(ifp.base, op.pre.ptr + 1, op.pre.ptr + op.arg) = op.data
    /\ (op.name = "write" /\ op.arg = 0) =>
          (op.calls = <<>> /\ op.ret = 0 /\ ifp = op.pre)

\* a write that fits and overwrites more than the unread bytes there were
C6_Witness ==
    /\ op.name = "write" /\ op.arg >= 1 /\ op.arg <= op.pre.bufferSize - op.pre.ptr
    /\ op.pre.count > 0 /\ op.pre.count < op.arg
    /\ op.calls = <<>> /\ ifp.count = 0 /\ ifp.dirty

\* the last call is a seek(offset, SEEK_SET) whose target lay in the window
SeekSetInWindow(rec) ==
    rec.name = "seek" /\ rec.whence = SEEK_SET /\ rec.inWindow

\* the trail ends with such a seek followed by reads only (at least one)
ReadsAfterSeekInWindow ==
    \E k \in 1..(Len(trail) - 1) :
        /\ SeekSetInWindow(trail[k])
        /\ \A j \in (k + 1)..Len(trail) : trail[j].name = "read"

\* C7 (as claimed): when windowBase <= offset < windowBase + cursor +
\* unreadCount, seek(offset, SEEK_SET) makes no remote call and returns 0, and
\* the reads that follow return the object's bytes from position offset on.
C7_SeekInRange ==
    /\ (op.name = "seek" /\ op.whence = SEEK_SET /\ InWindow(op.pre, op.arg)) =>
          (op.calls = <<>> /\ op.ret = 0)
    /\ (allOK /\ ReadsAfterSeekInWindow) =>
          (op.ret = Len(op.want) /\ op.data = op.want)

\* the first half of C7 alone: the seek is resolved in the buffer
C7_SeekInRangeIsLocal ==
    (op.name = "seek" /\ op.whence = SEEK_SET /\ InWindow(op.pre, op.arg)) =>
        (op.calls = <<>> /\ op.ret = 0 /\ op.local
         /\ ifp.base_offset + ifp.ptr = op.arg)

\* C8 (as claimed): a seek(offset, SEEK_SET) to a target outside the window
\* makes exactly one remote seek call, preceded by exactly one flush write if
\* the handle was dirty and by none otherwise, and no other remote call.
C8_SeekOutOfRange ==
    (op.name = "seek" /\ op.whence = SEEK_SET /\ ~InWindow(op.pre, op.arg)) =>
        op.calls = (IF op.pre.dirty THEN <<"write">> ELSE <<>>) \o <<"seek">>

\* C8 (amended): a seek(offset, SEEK_SET) to a target outside the window
\* makes, unless its flush write fails, exactly one remote seek call followed
\* by exactly one position query (a second lseek primitive, offset 0,
\* SEEK_CUR), preceded by exactly one flush write if the handle was dirty and
\* by none otherwise, and no other remote call; when the flush write fails it
\* is the only call.
C8_SeekOutOfRangeAmended ==
    (op.name = "seek" /\ op.whence = SEEK_SET /\ ~InWindow(op.pre, op.arg)) =>
        IF op.pre.dirty /\ ifp.dirty
        THEN op.calls = <<"write">> /\ op.failed
        ELSE op.calls = (IF op.pre.dirty THEN <<"write">> ELSE <<>>) \o <<"seek", "tell">>

\* a seek out of the window of a dirty handle: flush, seek, position query
C8_Witness ==
    /\ op.name = "seek" /\ op.whence = SEEK_SET /\ ~InWindow(op.pre, op.arg)
    /\ op.pre.dirty /\ op.pre.ptr + op.pre.count > 0
    /\ op.calls = <<"write", "seek", "tell">> /\ op.ret = 0

\* C9 (as claimed): every read, write or seek call issues 0 or 1 remote calls
\* in total, position queries included, but for a write whose overflow
\* triggers a flush followed by a bypass write, which issues 2.
C9_RemoteCallBudget ==
    op.name \in {"read", "write", "seek"} =>
        \/ Len(op.calls) <= 1
        \/ op.name = "write" /\ op.calls = <<"write", "write">>

\* C9 (amended): every read, write or seek call issues at most 3 remote calls
\* in total, position queries included: a read at most one flush write, one
\* position query and one remote read, in this order; a seek at most one
\* flush write, one remote seek and one position query, in this order; a
\* write at most one flush write, followed by a bypass write when the
\* remainder exceeds the maximum cap.  The flush write is issued only by a
\* dirty handle.
IsPrefix(s, t) == Len(s) <= Len(t) /\ SubSeq(t, 1, Len(s)) = s

C9_RemoteCallBudgetAmended ==
    LET flush == IF op.pre.dirty THEN <<"write">> ELSE <<>>
    IN /\ op.name = "read" =>
             (op.calls = <<>> \/ op.calls = flush \/ op.calls = flush \o <<"tell", "read">>
              \/ (op.failed /\ IsPrefix(op.calls, flush \o <<"tell", "read">>)))
       /\ op.name = "seek" =>
             (op.calls = <<>> \/ op.calls = flush \o <<"seek", "tell">>
              \/ (op.failed /\ IsPrefix(op.calls, flush \o <<"seek", "tell">>)))
       /\ op.name = "write" =>
             (op.calls = <<>> \/ op.calls = <<"write">> \/ op.calls = <<"write", "write">>)
       /\ op.name \in {"read", "write", "seek"} => Len(op.calls) <= 3

\* a read that takes all three remote calls: flush, position query, remote read
C9_Witness ==
    /\ op.name = "read" /\ op.pre.dirty
    /\ op.calls = <<"write", "tell", "read">>

\* the bytes between the logical position before the last call and the end of
\* the object
Remaining == Max(0, Len(refObj) - op.pos)

\* the call before the last one was a read that returned less than asked
PrevReadWasShort ==
    /\ Len(trail) >= 2
    /\ trail[Len(trail) - 1].name = "read"
    /\ trail[Len(trail) - 1].ret >= 0
    /\ trail[Len(trail) - 1].ret < trail[Len(trail) - 1].arg

\* C10 (as claimed): when fewer than n bytes remain between the logical
\* position and the end of the object, read(n) returns the number of
\* remaining bytes with no error, and the next read returns 0 with no error.
C10_EndOfObject ==
    /\ (op.name = "read" /\ allOK /\ Remaining < op.arg) => op.ret = Remaining
    /\ (op.name = "read" /\ allOK /\ PrevReadWasShort) => op.ret = 0

\* the second half of C10 alone: after a short read, a read returns 0
C10_ZeroAfterShort ==
    (op.name = "read" /\ allOK /\ PrevReadWasShort) => op.ret = 0

\* no write call and no relative seek in the trail
NoWriteInTrail == \A i \in 1..Len(trail) : trail[i].name # "write"
NoSeekCurInTrail ==
    \A i \in 1..Len(trail) : ~(trail[i].name = "seek" /\ trail[i].whence = SEEK_CUR)

\* C10 does hold of handles that were never written and never sought
\* relative to the current position
C10_EndOfObjectReadOnly ==
    (NoWriteInTrail /\ NoSeekCurInTrail) => C10_EndOfObject

\* a handler has overrun the block it allocated (reachable: two writes of
\* ISIO_MAX_BUF_SIZE + 1 bytes)
NoUndefinedBehaviour == ~ub

\* ------------------------------------------------------------------------
\* Claims about the handle table
\* ------------------------------------------------------------------------
\* the ISIO_FILEs that were live before the last call through the table
LiveBefore == Cardinality(tcall.files)

\* C11 (as claimed): an open of a remote path (rcDataObjOpen succeeding)
\* succeeds whenever fewer than ISIO_MAX_OPEN_FILES handles are live, for any
\* history of opens and closes; so it does after the table was full and one
\* handle was closed.
C11_ReuseAfterClose ==
    (tcall.name = "open" /\ tcall.remoteOK /\ LiveBefore < ISIO_MAX_OPEN_FILES) =>
        tcall.ret # NULL

\* what does hold: an open succeeds when a slot of the table is still NULL
C11_OpenWithNullSlot ==
    (tcall.name = "open" /\ tcall.remoteOK
     /\ \E i \in 1..ISIO_MAX_OPEN_FILES : tcall.table[i] = NULL) =>
        (tcall.ret # NULL /\ cacheInfo[tcall.ret] = nalloc)

\* C12: while ISIO_MAX_OPEN_FILES remote handles are live, one more open of a
\* remote path fails and returns NULL.
C12_OpenWhenFull ==
    (tcall.name = "open" /\ LiveBefore = ISIO_MAX_OPEN_FILES) =>
        (tcall.ret = NULL /\ cacheInfo = tcall.table)

\* an open that reached add_to_map with every slot taken by a live handle
C12_Witness ==
    /\ tcall.name = "open" /\ tcall.remoteOK
    /\ LiveBefore = ISIO_MAX_OPEN_FILES
    /\ tcall.ret = NULL

\* C13 (as claimed): when an open fails because the table is full, the
\* allocated ISIO_FILEs and the open remote descriptors are those of before
\* the call.
C13_ExhaustionCreatesNothing ==
    (tcall.name = "open" /\ tcall.remoteOK /\ tcall.ret = NULL) =>
        (files = tcall.files /\ descs = tcall.descs)

\* C14 (as claimed): after close(id) has returned on a registered handle, id
\* is not registered: is_in_map(id) yields NULL, and no later call with id
\* reaches the destroyed ISIO_FILE.
C14_CloseReleasesId ==
    /\ (tcall.name = "close" /\ ~tub /\ tcall.ret = 0) =>
          is_in_map(cacheInfo, tcall.id) = NULL
    /\ ~tub

\* ------------------------------------------------------------------------
\* Claims about what the calls return
\* ------------------------------------------------------------------------
\* C15 (as claimed): tell returns the handle's logical offset, the offset of
\* the next byte a read would deliver or a write would place, after any
\* sequence of reads, writes and seeks.
C15_TellIsLogicalOffset ==
    (op.name = "tell" /\ allOK) => op.ret = op.pos

\* what tell does return: the position of the remote descriptor
C15_TellIsRemotePosition ==
    (op.name = "tell" /\ allOK) => (op.ret = op.rpos0 /\ op.calls = <<"tell">>)

\* C16 (as claimed): every successful write of n bytes returns n, and the
\* wrapper n / itemSize items, on each of the three paths.
C16_WriteReturnsCount ==
    (op.name = "write" /\ allOK) =>
        (op.ret = op.arg /\ op.items = op.arg \div op.itemsize)

\* the paths of C16 that do return n: the write issues no bypass write
C16_WriteReturnsCountCached ==
    (op.name = "write" /\ allOK /\ Len(op.calls) <= 1) =>
        (op.ret = op.arg /\ op.items = op.arg \div op.itemsize)

\* C17 (as claimed): flush returns 0 whenever it succeeds, the handle clean or
\* the dirty buffer written, and a negative value when the remote write fails.
C17_FlushReturnsZero ==
    op.name = "flush" =>
        IF op.failed THEN op.ret < 0 ELSE op.ret = 0

\* what flush does return: 0 on a clean handle, the status of rcDataObjWrite
\* on a dirty one (the number of bytes written, or a negative status)
C17_FlushReturnsStatus ==
    op.name = "flush" =>
        IF ~op.pre.dirty THEN op.ret = 0 /\ op.calls = <<>>
        ELSE IF op.failed THEN op.ret < 0
        ELSE op.ret = op.pre.ptr + op.pre.count

\* C18 (as claimed): irodsfread returns totalBytes / itemSize, a number of
\* items between 0 and itemCount, for every outcome of the remote calls.
C18_ReadReturnsItems ==
    (op.name = "read" /\ ~ub) =>
        (0 <= op.items /\ op.items <= op.arg \div op.itemsize)

\* C18 does hold of the reads whose remote calls all succeed
C18_ReadReturnsItemsNoFailure ==
    (op.name = "read" /\ ~ub /\ ~op.failed) =>
        (0 <= op.items /\ op.items <= op.arg \div op.itemsize
         /\ op.items = Len(op.data) \div op.itemsize)

\* ------------------------------------------------------------------------
\* Claims about putc and getc
\* ------------------------------------------------------------------------
\* C19 (as claimed): putc returns the byte that was written when the one-byte
\* write succeeds, and an error value (negative) otherwise.
C19_PutcReturnsByte ==
    (op.name = "putc" /\ ~ub) =>
        IF op.failed THEN op.ret < 0 ELSE op.ret = op.inchar % 256

\* what putc does return: what isioFileWrite returns, 1 for the byte accepted
\* or a negative status; the byte is in the buffer at the old cursor when
\* there was room for it
C19_PutcReturnsCount ==
    (op.name = "putc" /\ ~ub) =>
        /\ IF op.failed THEN op.ret < 0 ELSE op.ret = 1
        /\ op.pre.ptr < op.pre.bufferSize =>
              (op.calls = <<>> /\ ifp.base[op.pre.ptr + 1] = op.inchar % 256)

\* no putc and no write call in the trail, and no relative seek
OnlyGetcAndAbsoluteSeeks ==
    \A i \in 1..Len(trail) :
        \/ trail[i].name \in {"getc", "flush"}
        \/ trail[i].name = "seek" /\ trail[i].whence # SEEK_CUR

C24_ErrorPropagation ==
    (op.name \in {"read", "write", "seek", "flush", "close"} /\ op.failed) =>
        /\ ~ub
        /\ op.ret = RemoteErr
        /\ \A i \in 1..(Len(op.calls) - 1) : i # op.failedAt

\* what holds of C24: read, write, flush and close return the status of
\* their failing rcDataObjWrite, rcDataObjRead or rcDataObjClose and stop
C24_ErrorPropagationReadWrite ==
    (op.name \in {"read", "write", "flush", "close"} /\ op.failed /\ ~ub) =>
        (op.ret = RemoteErr /\ op.failedAt = Len(op.calls))

\* the bytes of the object at the window: offsets [base_offset, base_offset +
\* ptr + count), as far as the object reaches
WindowOfObject ==
    SubSeq(obj, ifp.base_offset + 1,
           Min(Len(obj), ifp.base_offset + ifp.ptr + ifp.count))
\* the bytes of the buffer in use: [0, ptr + count)
BufferInUse == SubSeq(ifp.base, 1, ifp.ptr + ifp.count)

\* C26 (as claimed): after a successful flush of a dirty handle the object's
\* bytes at [windowBase, windowBase + cursor + unreadCount) are the buffer's
\* bytes [0, cursor + unreadCount).
C26_FlushAtWindow ==
    (op.name = "flush" /\ op.pre.dirty /\ ~op.failed /\ ~ub) =>
        WindowOfObject = BufferInUse

\* what the flush does: the buffer's bytes are in the object at the position
\* the remote descriptor had before the call
C26_FlushAtRemotePosition ==
    (op.name = "flush" /\ op.pre.dirty /\ ~op.failed /\ ~ub) =>
        /\ SubSeq(obj, op.rpos0 + 1, op.rpos0 + ifp.ptr + ifp.count) = BufferInUse
        /\ rpos = op.rpos0 + ifp.ptr + ifp.count
        /\ ~ifp.dirty

\* C27 (as claimed): whenever the handle is not dirty and cursor +
\* unreadCount > 0, buffer byte i is the object's byte at windowBase + i.
C27_WindowConsistency ==
    (~closed /\ ~ub /\ allOK /\ ~ifp.dirty /\ ifp.ptr + ifp.count > 0) =>
        WindowOfObject = BufferInUse

\* C27 does hold of handles that were never written
C27_WindowConsistencyReadOnly ==
    (~closed /\ ~ub /\ allOK /\ NoWriteInTrail /\ ifp.ptr + ifp.count > 0) =>
        WindowOfObject = BufferInUse

\* the last call is a write that sent its remainder directly (bypass)
BypassWrite ==
    op.name = "write" /\ op.calls = <<"write", "write">> /\ ~op.failed /\ ~ub

\* C28 (as claimed): after a write whose remainder went directly to the
\* object, windowBase is the position of the remote descriptor.
C28_BypassWriteWindowBase ==
    BypassWrite => ifp.base_offset = rpos

\* what the bypass does: windowBase advances by the old capacity and the
\* remainder
C28_BypassWriteArithmetic ==
    BypassWrite =>
        ifp.base_offset = op.pre.base_offset + op.pre.bufferSize
                          + (op.arg - (op.pre.bufferSize - op.pre.ptr))

\* the bytes a read still wants after the cache gave what it had
ReadReqSize ==
    IF op.pre.count > 0 /\ op.pre.count < op.arg THEN op.arg - op.pre.count
    ELSE op.arg
\* the last call is a read served by the bypass path: it refilled, with a
\* refill size above the capacity and above the maximum
BypassRead ==
    /\ op.name = "read" /\ op.arg > 0 /\ op.pre.count < op.arg
    /\ Len(op.calls) > (IF op.pre.dirty THEN 1 ELSE 0)
    /\ (2 * ReadReqSize) + 8 > op.pre.bufferSize
    /\ (2 * ReadReqSize) + 8 > ISIO_MAX_BUF_SIZE

\* C29 (as claimed): when a bypass read returns, the remote read having
\* succeeded or failed, the buffer and its capacity are those of before the
\* call, cursor = 0 and unreadCount = 0, and the handle does not refer to
\* the caller's memory.
C29_BypassReadRestores ==
    (BypassRead /\ ~ub) =>
        /\ ~ifp.userBase
        /\ ifp.base = op.pre.base
        /\ ifp.bufferSize = op.pre.bufferSize
        /\ ifp.ptr = 0 /\ ifp.count = 0

\* C29 does hold when the remote read succeeds
C29_BypassReadRestoresOnSuccess ==
    (BypassRead /\ ~ub /\ ~op.failed) =>
        /\ ~ifp.userBase
        /\ ifp.base = op.pre.base
        /\ ifp.bufferSize = op.pre.bufferSize
        /\ ifp.ptr = 0 /\ ifp.count = 0

\* the bytes of a write that did not fit: n - w, w = bufferCapacity - cursor
WriteRemainder == op.arg - (op.pre.bufferSize - op.pre.ptr)
\* the last call is a write that overflowed and cached its remainder
OverflowCached ==
    /\ op.name = "write" /\ ~op.failed /\ ~ub
    /\ op.pre.ptr <= op.pre.bufferSize
    /\ WriteRemainder > 0 /\ WriteRemainder <= ISIO_MAX_BUF_SIZE

\* C30 (as claimed): such a write returns n with dirty set and cursor =
\* remainder; when the remainder exceeded the capacity, the capacity is
\* 2 * remainder + 8 afterwards, so cursor <= bufferCapacity.
C30_OverflowCached ==
    OverflowCached =>
        /\ op.ret = op.arg /\ ifp.dirty /\ ifp.ptr = WriteRemainder
        /\ WriteRemainder > op.pre.bufferSize =>
              ifp.bufferSize = (2 * WriteRemainder) + 8
        /\ ifp.ptr <= ifp.bufferSize

\* what holds of C30: the return value, dirty and the cursor, and the size of
\* the block behind the buffer
C30_OverflowCachedCursor ==
    OverflowCached =>
        /\ op.ret = op.arg /\ ifp.dirty /\ ifp.ptr = WriteRemainder
        /\ op.calls = <<"write">>
        /\ WriteRemainder > op.pre.bufferSize =>
              Len(ifp.base) = (2 * WriteRemainder) + 8

\* realloc returned NULL in the last call
AllocFailed == op.name \in {"read", "write"} /\ ifp.base = NoBlock

\* C25 (as claimed): when growing the buffer fails during a read refill or a
\* write overflow, the call returns a negative error value, never 0 or a
\* positive byte count.
C25_AllocationFailure ==
    AllocFailed => op.ret < 0

\* what holds of C25: the read returns -99 and the write returns 0, making no
\* remote call after the failure
C25_AllocationFailureReturns ==
    AllocFailed =>
        /\ op.name = "read" => op.ret = MemoryAllocationError
        /\ op.name = "write" => op.ret = 0

\* ------------------------------------------------------------------------
\* Claims about the session, irodsexit and the order of close
\* ------------------------------------------------------------------------
\* step a is performed, and before every step b, in the last call
StepBefore(a, b) ==
    \E i \in 1..Len(tcall.order) :
        /\ tcall.order[i] = a
        /\ \A j \in 1..Len(tcall.order) : tcall.order[j] = b => i < j

\* the ISIO_FILEs that held unwritten data when the last call was made
DirtyBefore == {F \in tcall.files : F.ifp.dirty}

\* C21 (as claimed): irodsexit called while handles hold dirty data writes
\* that data to the remote object before it disconnects the session, and
\* disconnects an established session before the process exits.
C21_ExitFlushes ==
    tcall.name = "exit" =>
        /\ DirtyBefore # {} =>
              (StepBefore("rcDataObjWrite", "rcDisconnect")
               /\ \A F \in files : ~F.ifp.dirty)
        /\ tcall.session.setupFlag > 0 => StepBefore("rcDisconnect", "exit")

\* what irodsexit does: it disconnects a session that was set up, then exits,
\* and writes nothing
C21_ExitDisconnects ==
    tcall.name = "exit" =>
        /\ tcall.order = IF tcall.session.setupFlag > 0
                         THEN <<"rcDisconnect", "exit">> ELSE <<"exit">>
        /\ files = tcall.files
        /\ tcall.session.setupFlag > 0 => session.Comm \in session.disconnected

\* C22 (as claimed): over any sequence of opens, those failing at connection
\* or at login included, at most one connection is made by the process; after
\* a successful setup every later setup does nothing and succeeds; and
\* nothing but irodsexit disconnects.
C22_SingleSession ==
    /\ session.nconnect <= 1
    /\ (tcall.name = "open" /\ tcall.session.setupFlag # 0) =>
          (session = tcall.session /\ tcall.order[1] = "rcDataObjOpen")
    /\ session.disconnected # {} => session.exited

\* what holds of C22: once a setup has succeeded no further connection is
\* made, later setups do nothing, and nothing but irodsexit disconnects
C22_SingleSessionOnceSetUp ==
    /\ tcall.session.setupFlag # 0 => session.nconnect = tcall.session.nconnect
    /\ (tcall.name = "open" /\ tcall.session.setupFlag # 0) =>
          (session = tcall.session /\ tcall.order[1] = "rcDataObjOpen")
    /\ session.disconnected # {} => session.exited

\* the last call is a close that returned 0 on a live ISIO_FILE
ClosedOK == tcall.name = "close" /\ ~tub /\ tcall.ret = 0
\* the ISIO_FILE that close was given
ClosedFile == CHOOSE F \in tcall.files : F.ptr = tcall.table[tcall.id]
\* the flush of a close: a remote write when the handle was dirty
FlushSteps == IF ClosedFile.ifp.dirty THEN <<"rcDataObjWrite">> ELSE <<>>

\* C23 (as claimed): close performs the flush of a dirty buffer, the remote
\* close, the release of the buffer and handle memory, and the return of the
\* id to the table, in this order.
C23_CloseOrdering ==
    ClosedOK =>
        /\ tcall.order = FlushSteps \o <<"rcDataObjClose", "destroy_isio_file">>
        /\ is_in_map(cacheInfo, tcall.id) = NULL

\* what close does: flush, release of the memory, then the remote close; the
\* slot of the table keeps the pointer
C23_CloseOrderingAsBuilt ==
    ClosedOK =>
        /\ tcall.order = FlushSteps \o <<"destroy_isio_file", "rcDataObjClose">>
        /\ cacheInfo = tcall.table

\* ------------------------------------------------------------------------
\* Claims about the capacity, the flush and the seeks
\* ------------------------------------------------------------------------
\* C31 (as claimed): whatever the outcome of a call, bufferCapacity after it
\* is not less than before it and is not above ISIO_MAX_BUF_SIZE.
C31_CapacityMonotone ==
    (~ub /\ ifp.base # NoBlock) =>
        /\ ifp.bufferSize >= op.pre.bufferSize
        /\ ifp.bufferSize <= ISIO_MAX_BUF_SIZE

\* C31 does hold as long as no remote call has failed
C31_CapacityMonotoneNoFailure ==
    (~ub /\ allOK) =>
        /\ ifp.bufferSize >= op.pre.bufferSize
        /\ ifp.bufferSize <= ISIO_MAX_BUF_SIZE

\* C32: a flush of a dirty handle issues exactly one remote write, of the
\* cursor + unreadCount bytes at the start of the buffer, and clears dirty
\* only if that write succeeds; a flush of a handle that is not dirty issues
\* no remote call; either leaves cursor, unreadCount, windowBase,
\* bufferCapacity and the buffer as they were.
C32_FlushFrame ==
    op.name = "flush" =>
        /\ op.calls = (IF op.pre.dirty THEN <<"write">> ELSE <<>>)
        /\ ifp = [op.pre EXCEPT !.dirty = op.pre.dirty /\ op.failed]
        /\ ~op.pre.dirty => (~op.failed /\ rpos = op.rpos0)
        /\ (op.pre.dirty /\ op.failed) => rpos = op.rpos0
        /\ (op.pre.dirty /\ ~op.failed) =>
              /\ rpos = op.rpos0 + op.pre.ptr + op.pre.count
              /\ SubSeq(obj, op.rpos0 + 1, rpos)
                   = SubSeq(op.pre.base, 1, op.pre.ptr + op.pre.count)

\* a flush of a dirty handle whose remote write failed: dirty stays set
C32_Witness ==
    /\ op.name = "flush" /\ op.pre.dirty /\ op.pre.ptr + op.pre.count > 0
    /\ op.failed /\ ifp.dirty /\ op.calls = <<"write">>

\* a flush of a dirty handle whose remote write succeeded
C32_WitnessWritten ==
    /\ op.name = "flush" /\ op.pre.dirty /\ op.pre.ptr + op.pre.count > 0
    /\ ~op.failed /\ ~ifp.dirty /\ op.calls = <<"write">>

\* the last call is seek(0, SEEK_CUR)
SeekZeroCur == op.name = "seek" /\ op.arg = 0 /\ op.whence = SEEK_CUR

\* C33 (as claimed): seek(0, SEEK_CUR) is resolved in the buffer in every
\* state of the handle, the empty buffer included: it makes no remote call
\* and leaves cursor, unreadCount, windowBase and dirty as they were.
C33_SeekZeroIsLocal ==
    SeekZeroCur =>
        /\ op.calls = <<>>
        /\ ifp.ptr = op.pre.ptr /\ ifp.count = op.pre.count
        /\ ifp.base_offset = op.pre.base_offset /\ ifp.dirty = op.pre.dirty

\* what holds of C33: seek(0, SEEK_CUR) is resolved in the buffer when the
\* buffer is not empty, and goes to the remote object when it is
C33_SeekZeroIsLocalNonEmpty ==
    SeekZeroCur =>
        IF op.pre.ptr + op.pre.count > 0
        THEN op.calls = <<>> /\ ifp = op.pre /\ op.ret = 0
        ELSE op.calls # <<>> /\ op.calls[1] \in {"write", "seek"}

\* the last call is a seek that was resolved inside the buffer
SeekInBuffer == op.name = "seek" /\ op.local

\* C34: a seek resolved inside the buffer (SEEK_SET or SEEK_CUR) moves cursor
\* by the adjustment and unreadCount by its opposite, so cursor + unreadCount
\* is unchanged and unreadCount >= 0; windowBase, dirty, bufferCapacity and
\* the buffer are unchanged; it makes no remote call and returns 0.
C34_SeekInBufferFrame ==
    SeekInBuffer =>
        /\ op.whence \in {SEEK_SET, SEEK_CUR}
        /\ ifp.ptr - op.pre.ptr
             = (IF op.whence = SEEK_CUR THEN op.arg
                ELSE (op.arg - op.pre.base_offset) - op.pre.ptr)
        /\ ifp.count = op.pre.count - (ifp.ptr - op.pre.ptr)
        /\ ifp.ptr + ifp.count = op.pre.ptr + op.pre.count
        /\ ifp.count >= 0 /\ ifp.ptr >= 0
        /\ ifp = [op.pre EXCEPT !.ptr = ifp.ptr, !.count = ifp.count]
        /\ op.calls = <<>> /\ ~op.failed
        /\ op.ret = 0
        /\ rpos = op.rpos0

\* a seek forward inside the buffer of a dirty handle, over unread bytes
C34_Witness ==
    /\ SeekInBuffer /\ op.whence = SEEK_CUR /\ op.arg > 0
    /\ op.pre.count >= op.arg /\ ifp.count = op.pre.count - op.arg
    /\ op.pre.dirty /\ ifp.dirty

\* a seek backward inside the buffer by SEEK_SET
C34_WitnessSet ==
    /\ SeekInBuffer /\ op.whence = SEEK_SET
    /\ ifp.ptr < op.pre.ptr /\ ifp.count > op.pre.count

\* the last call is a seek that went to the remote object, none of its remote
\* calls failing
SeekRemoteOK == op.name = "seek" /\ ~op.local /\ ~op.failed /\ ~ub

\* C35: after a seek that is not resolved in the buffer and whose flush and
\* remote seek succeed, cursor = 0, unreadCount = 0, dirty is clear and
\* windowBase is the position of the remote descriptor; a SEEK_END seek is
\* never resolved in the buffer.
C35_SeekRemotePostState ==
    /\ SeekRemoteOK =>
          /\ ifp.ptr = 0 /\ ifp.count = 0 /\ ~ifp.dirty
          /\ ifp.base_offset = rpos
          /\ op.ret = 0
    /\ (op.name = "seek" /\ op.whence = SEEK_END) => (~op.local /\ op.calls # <<>>)

\* a SEEK_END seek on a dirty handle with unread bytes: flushed, then sought
C35_Witness ==
    /\ SeekRemoteOK /\ op.whence = SEEK_END
    /\ op.pre.dirty /\ op.pre.ptr > 0
    /\ op.calls = <<"write", "seek", "tell">>

\* a SEEK_SET seek outside the window
C35_WitnessSet ==
    /\ SeekRemoteOK /\ op.whence = SEEK_SET
    /\ op.pre.ptr + op.pre.count > 0 /\ ~InWindow(op.pre, op.arg)

\* ------------------------------------------------------------------------
\* Claims about sequences of calls
\* ------------------------------------------------------------------------
\* the call before the last one was a seek(offset, SEEK_CUR) that returned 0,
\* to a target p + offset not before the start of the object
AfterSeekCur ==
    /\ Len(trail) >= 2
    /\ trail[Len(trail) - 1].name = "seek"
    /\ trail[Len(trail) - 1].whence = SEEK_CUR
    /\ trail[Len(trail) - 1].ret = 0
    /\ trail[Len(trail) - 1].pos + trail[Len(trail) - 1].arg >= 0

\* C36 (as claimed): after a successful seek(offset, SEEK_CUR) at logical
\* position p, the next read delivers the object's bytes from p + offset, the
\* seek resolved in the buffer or gone to the remote object.
C36_RelativeSeek ==
    (op.name = "read" /\ AfterSeekCur /\ allOK /\ NoWriteInTrail) =>
        (op.data = op.want /\ op.ret = Len(op.want))

\* C36 does hold when the relative seek was resolved inside the buffer
C36_RelativeSeekInBuffer ==
    (op.name = "read" /\ AfterSeekCur /\ allOK /\ NoWriteInTrail
     /\ \A i \in 1..Len(trail) :
            (trail[i].name = "seek" /\ trail[i].whence = SEEK_CUR) => trail[i].local) =>
        (op.data = op.want /\ op.ret = Len(op.want))

\* every call so far is a read
OnlyReads == \A i \in 1..Len(trail) : trail[i].name = "read"

\* C37: on a freshly opened handle that is only read, each read of n bytes
\* returns min(n, bytes remaining) bytes, and they are the object's bytes
\* from the end of the bytes returned before: none skipped, none twice.
C37_SequentialReads ==
    (OnlyReads /\ allOK /\ Len(trail) >= 1) =>
        /\ op.ret = Min(op.arg, Remaining)
        /\ op.data = SubSeq(InitialObject(ObjLen), op.pos + 1, op.pos + op.ret)
        /\ op.pos = IF Len(trail) = 1 THEN 0
                    ELSE trail[Len(trail) - 1].pos + trail[Len(trail) - 1].ret
        /\ obj = InitialObject(ObjLen)

\* a read partly served from the cache and completed by a bypass read
C37_Witness ==
    /\ OnlyReads /\ allOK /\ Len(trail) >= 2
    /\ op.pre.count > 0 /\ op.pre.count < op.arg
    /\ (2 * (op.arg - op.pre.count)) + 8 > ISIO_MAX_BUF_SIZE
    /\ op.ret > op.pre.count

\* a read from a buffer that an earlier read has grown, after one from the
\* cache
C37_WitnessGrown ==
    /\ OnlyReads /\ allOK /\ Len(trail) >= 3
    /\ op.pre.bufferSize > ISIO_INITIAL_BUF_SIZE
    /\ op.ret > 0
    /\ trail[Len(trail) - 1].ret > 0

\* every call so far is a write or a flush, but for a last close
OnlyWritesAndFlushes ==
    \A i \in 1..Len(trail) :
        \/ trail[i].name \in {"write", "flush"}
        \/ i = Len(trail) /\ trail[i].name = "close"

\* C38 (as claimed): after writes and flush calls on a freshly opened handle
\* and a successful close, the object holds from offset 0 the bytes written,
\* in the order written, each once.
C38_SequentialWrites ==
    (closed /\ OnlyWritesAndFlushes /\ allOK /\ op.ret = 0) =>
        obj = refObj

\* C38 does hold when no flush is called before the close and no write
\* overflows the buffer into a grown one
C38_SequentialWritesNoFlush ==
    (closed /\ OnlyWritesAndFlushes /\ allOK /\ op.ret = 0
     /\ \A i \in 1..Len(trail) : trail[i].name # "flush"
     /\ op.pre.ptr <= op.pre.bufferSize) =>
        obj = refObj

====
